---- MODULE Spec2Model ----
(***************************************************************************)
(* Model of kivy_voice_notes.py: the VoiceNotesKivy application.           *)
(*                                                                         *)
(* One UI thread runs the button handlers, the Clock callbacks and the    *)
(* 0.1 s poll of results_queue. Background threads run _listen_loop       *)
(* (speech capture) and _tts_worker (queued speech synthesis). Handlers   *)
(* are atomic steps of the UI thread; a worker is cut into steps at its   *)
(* accesses to shared fields.                                              *)
(*                                                                         *)
(* Text is a sequence of one-character strings.                           *)
(***************************************************************************)
EXTENDS Integers, Sequences, FiniteSets, TLC

(* ---------------- bounds ---------------- *)
\* total number of utterances on_speak may enqueue in one run
MaxUtter == 2
\* total number of chunks the recognizer may return in one run
MaxChunks == 2
\* thread slots for _tts_worker threads that are alive at the same time
MaxTts == 2
\* thread slots for _listen_loop threads that are alive at the same time
MaxAsr == 2

(* ---------------- text ---------------- *)
Hello == <<"H", "e", "l", "l", "o">>
World == <<"W", "o", "r", "l", "d">>

\* what the user may type or load into text_area
Docs == { <<>>, <<" ">>, <<"a">> }
\* what recognize_google may return
Chunks == { <<>>, <<"h">>, <<"w", " ">>, <<"w", " ", " ">> }

\* characters str.strip() removes
Whitespace == {" ", "\n", "\t"}

RECURSIVE lstrip(_)
lstrip(s) == IF s # <<>> /\ Head(s) \in Whitespace THEN lstrip(Tail(s)) ELSE s

RECURSIVE rstrip(_)
rstrip(s) ==
    IF s # <<>> /\ s[Len(s)] \in Whitespace THEN rstrip(SubSeq(s, 1, Len(s) - 1)) ELSE s

\* str.strip()
strip(s) == rstrip(lstrip(s))

\* str.endswith(" ")
endswith_space(s) == s # <<>> /\ s[Len(s)] = " "

\* lines 229-232: what one chunk adds to text_area.text
chunk_text_mut(chunk) == IF chunk # <<>> THEN chunk \o <<" ">> ELSE <<>>
chunk_text(chunk) ==
    IF chunk # <<>>
    THEN IF ~endswith_space(chunk) THEN chunk \o <<" ">> ELSE chunk
    ELSE <<>>

\* lines 226-234: the text all chunks of the queue add, in queue order
drain_text_mut(q) == IF q = <<>> THEN <<>> ELSE chunk_text(Head(q))
RECURSIVE drain_text(_)
drain_text(q) == IF q = <<>> THEN <<>> ELSE chunk_text(Head(q)) \o drain_text(Tail(q))

(* ---------------- values ---------------- *)
None == "None"
Engine == "engine"
NoItem == [n |-> 0, text |-> <<>>]

TtsIds == 1..MaxTts
AsrIds == 1..MaxAsr

VARIABLES
    sr_ok,              \* the module speech_recognition was imported (line 45)
    pyttsx3_ok,         \* the module pyttsx3 was imported (line 51)
    is_listening,
    listen_stop_event,
    results_queue,
    tts_engine,
    is_speaking,
    tts_thread,         \* 0 for None, else the slot of the Thread object
    tts_queue,          \* items [n, text]; n is the enqueue number of the item
    tts_unfinished,     \* queue.Queue.unfinished_tasks of tts_queue
    tts_stop_event,
    text_area,
    disabled,           \* the disabled flag of btn_record, btn_speak, btn_stop
    status,             \* text of the latest _set_status call (lines 220-223): the
                        \* label shows it once the Clock has run the _update closure
    sched_buttons,      \* an _update_buttons call is scheduled on the Clock
    asr_pc,             \* position of each _listen_loop thread
    tts_pc,             \* position of each _tts_worker thread
    tts_text,           \* the local `text` of each _tts_worker thread
    enqueued,           \* history: number of utterances put on tts_queue
    recognized,         \* history: number of chunks put on results_queue
    played,             \* history: the items say() was called with, in call order
    stop_mark,          \* history: the value of enqueued when on_stop_button last
                        \* stopped the synthesis (lines 134-144)
    last                \* history: the step taken last and the branch it took

state == <<sr_ok, pyttsx3_ok, is_listening, listen_stop_event, results_queue,
           tts_engine, is_speaking, tts_thread, tts_queue, tts_unfinished,
           tts_stop_event, text_area, disabled, status,
           sched_buttons, asr_pc, tts_pc, tts_text>>

hist == <<enqueued, recognized, played, stop_mark>>

vars == <<state, hist, last>>

Step(op, br, th, popup) == [op |-> op, br |-> br, th |-> th, popup |-> popup]

(* ---------------- helpers ---------------- *)
\* threading.Thread.is_alive()
tts_alive(t) == tts_pc[t] \notin {"none", "dead"}
asr_alive(t) == asr_pc[t] \notin {"none", "dead"}

TtsFree == { t \in TtsIds : ~tts_alive(t) }
AsrFree == { t \in AsrIds : ~asr_alive(t) }
MinOf(S) == CHOOSE x \in S : \A y \in S : x <= y

\* lines 132 and 209
speaking_or_queued(sp, q) == sp \/ q # <<>>

\* lines 208-218: _update_buttons
update_buttons(l, sp, q) ==
    [btn_record |-> l, btn_speak |-> l, btn_stop |-> ~(l \/ speaking_or_queued(sp, q))]

(* ---------------- construction ---------------- *)
\* lines 57-111: build()
Init ==
    /\ sr_ok \in BOOLEAN
    /\ pyttsx3_ok \in BOOLEAN
    /\ is_listening = FALSE
    /\ listen_stop_event = FALSE
    /\ results_queue = <<>>
    /\ tts_engine = IF pyttsx3_ok THEN Engine ELSE None
    /\ is_speaking = FALSE
    /\ tts_thread = 0
    /\ tts_queue = <<>>
    /\ tts_unfinished = 0
    /\ tts_stop_event = FALSE
    /\ text_area = <<>>
    /\ disabled = update_buttons(FALSE, FALSE, <<>>)
    /\ status = "Ready"
    /\ sched_buttons = FALSE
    /\ asr_pc = [t \in AsrIds |-> "none"]
    /\ tts_pc = [t \in TtsIds |-> "none"]
    /\ tts_text = [t \in TtsIds |-> NoItem]
    /\ enqueued = 0
    /\ recognized = 0
    /\ played = <<>>
    /\ stop_mark = 0
    /\ last = Step("build", "", "ui", "")

(* ---------------- button handlers (UI thread) ---------------- *)
\* line 115: the guard of on_record
already_listening_mut(l) == FALSE
already_listening(l) == l

\* line 117: `not self.recognizer or not sr`, no recognizer to listen with
recognizer_missing_mut(ok) == FALSE
recognizer_missing(ok) == ~ok

\* lines 114-124: on_record
on_record ==
    IF already_listening(is_listening)
    THEN /\ UNCHANGED <<state, hist>>
         /\ last' = Step("on_record", "already_listening", "ui", "")
    ELSE IF recognizer_missing(sr_ok)
    THEN /\ UNCHANGED <<state, hist>>
         /\ last' = Step("on_record", "no_recognizer", "ui", "Missing Dependency")
    ELSE /\ AsrFree # {}
         /\ is_listening' = TRUE
         /\ listen_stop_event' = FALSE
         /\ status' = "Listening..."
         /\ disabled' = update_buttons(TRUE, is_speaking, tts_queue)
         /\ asr_pc' = [asr_pc EXCEPT ![MinOf(AsrFree)] = "open"]
         /\ UNCHANGED <<sr_ok, pyttsx3_ok, results_queue, tts_engine, is_speaking,
                        tts_thread, tts_queue, tts_unfinished, tts_stop_event,
                        text_area, sched_buttons, tts_pc, tts_text>>
         /\ UNCHANGED hist
         /\ last' = Step("on_record", "started", "ui", "")

\* names the branch on_stop_button takes, from the three conditions it reads
StopBranch(l, soq, eng) ==
    IF l THEN (IF soq THEN (IF eng THEN "listening+tts" ELSE "listening+noengine")
                      ELSE "listening")
         ELSE (IF soq THEN (IF eng THEN "tts" ELSE "noengine")
                      ELSE "nothing")

\* line 133: the condition under which on_stop_button stops the synthesis
stop_tts_cond_mut(soq, eng) == eng # None
stop_tts_cond(soq, eng) == soq /\ eng # None

\* lines 126-147: on_stop_button (with _clear_tts_queue, lines 315-321)
on_stop_button ==
    LET l == is_listening
        soq == speaking_or_queued(is_speaking, tts_queue)
        stop_tts == stop_tts_cond(soq, tts_engine)
        st1 == IF l THEN "Stopping listening..." ELSE status
        st2 == IF stop_tts THEN "Stopped." ELSE st1
        st3 == IF ~l /\ ~soq THEN "Nothing to stop." ELSE st2
    IN  /\ listen_stop_event' = (IF l THEN TRUE ELSE listen_stop_event)
        /\ tts_stop_event' = (IF stop_tts THEN TRUE ELSE tts_stop_event)
        /\ tts_queue' = (IF stop_tts THEN <<>> ELSE tts_queue)
        /\ tts_unfinished' =
               (IF stop_tts THEN tts_unfinished - Len(tts_queue) ELSE tts_unfinished)
        /\ tts_engine' = (IF stop_tts THEN None ELSE tts_engine)
        /\ tts_thread' = (IF stop_tts THEN 0 ELSE tts_thread)
        /\ is_speaking' = (IF stop_tts THEN FALSE ELSE is_speaking)
        /\ status' = st3
        /\ disabled' = update_buttons(is_listening, is_speaking', tts_queue')
        /\ UNCHANGED <<sr_ok, pyttsx3_ok, is_listening, results_queue, text_area,
                       sched_buttons, asr_pc, tts_pc, tts_text>>
        /\ UNCHANGED <<enqueued, recognized, played>>
        /\ stop_mark' = (IF stop_tts THEN enqueued ELSE stop_mark)
        /\ last' = Step("on_stop_button", StopBranch(l, soq, tts_engine # None), "ui", "")

\* lines 149-171: on_speak
on_speak ==
    IF ~pyttsx3_ok
    THEN /\ UNCHANGED <<state, hist>>
         /\ last' = Step("on_speak", "no_pyttsx3", "ui", "Missing Dependency")
    ELSE \E init_ok \in (IF tts_engine = None THEN BOOLEAN ELSE {TRUE}) :
         IF ~init_ok
         THEN /\ UNCHANGED <<state, hist>>
              /\ last' = Step("on_speak", "init_failed", "ui", "TTS Error")
         ELSE LET text == strip(text_area) IN
              IF text = <<>>
              THEN /\ tts_engine' = Engine
                   /\ status' = "Nothing to speak."
                   /\ UNCHANGED <<sr_ok, pyttsx3_ok, is_listening, listen_stop_event,
                                  results_queue, is_speaking, tts_thread, tts_queue,
                                  tts_unfinished, tts_stop_event, text_area,
                                  disabled, sched_buttons, asr_pc,
                                  tts_pc, tts_text>>
                   /\ UNCHANGED hist
                   /\ last' = Step("on_speak", "blank", "ui", "")
              ELSE LET spawn == tts_thread = 0 \/ ~tts_alive(tts_thread)
                       t == MinOf(TtsFree)
                   IN  /\ enqueued < MaxUtter
                       /\ spawn => TtsFree # {}
                       /\ tts_engine' = Engine
                       /\ tts_queue' = Append(tts_queue, [n |-> enqueued + 1, text |-> text])
                       /\ tts_unfinished' = tts_unfinished + 1
                       /\ enqueued' = enqueued + 1
                       /\ status' = "Queued for speaking..."
                       /\ tts_stop_event' = (IF spawn THEN FALSE ELSE tts_stop_event)
                       /\ tts_thread' = (IF spawn THEN t ELSE tts_thread)
                       /\ tts_pc' = (IF spawn THEN [tts_pc EXCEPT ![t] = "loop"] ELSE tts_pc)
                       /\ tts_text' = (IF spawn THEN [tts_text EXCEPT ![t] = NoItem]
                                                ELSE tts_text)
                       /\ disabled' = update_buttons(is_listening, is_speaking, tts_queue')
                       /\ UNCHANGED <<sr_ok, pyttsx3_ok, is_listening, listen_stop_event,
                                      results_queue, is_speaking, text_area, sched_buttons, asr_pc>>
                       /\ UNCHANGED <<recognized, played, stop_mark>>
                       /\ last' = Step("on_speak", IF spawn THEN "queued+spawn" ELSE "queued",
                                       "ui", "")

\* lines 190-192: on_new
on_new ==
    /\ text_area' = <<>>
    /\ status' = "Cleared."
    /\ UNCHANGED <<sr_ok, pyttsx3_ok, is_listening, listen_stop_event, results_queue,
                   tts_engine, is_speaking, tts_thread, tts_queue, tts_unfinished,
                   tts_stop_event, disabled, sched_buttons, asr_pc,
                   tts_pc, tts_text>>
    /\ UNCHANGED hist
    /\ last' = Step("on_new", "", "ui", "")

\* line 97: the user replaces the text of the TextInput by doc
type_doc(doc) ==
    /\ text_area' = doc
    /\ UNCHANGED <<sr_ok, pyttsx3_ok, is_listening, listen_stop_event, results_queue,
                   tts_engine, is_speaking, tts_thread, tts_queue, tts_unfinished,
                   tts_stop_event, disabled, status, sched_buttons, asr_pc, tts_pc,
                   tts_text>>
    /\ UNCHANGED hist
    /\ last' = Step("type_text", "", "ui", "")

type_text == \E doc \in Docs \ {text_area} : type_doc(doc)

(* ---------------- Clock (UI thread) ---------------- *)
\* lines 266, 278, 298, 313: one frame of the Clock runs the _update_buttons
\* calls scheduled with schedule_once(..., 0); _update_buttons reads the fields
\* as they are when the frame runs
clock_tick ==
    /\ sched_buttons
    /\ disabled' = update_buttons(is_listening, is_speaking, tts_queue)
    /\ sched_buttons' = FALSE
    /\ UNCHANGED <<sr_ok, pyttsx3_ok, is_listening, listen_stop_event, results_queue,
                   tts_engine, is_speaking, tts_thread, tts_queue, tts_unfinished,
                   tts_stop_event, text_area, status, asr_pc, tts_pc, tts_text>>
    /\ UNCHANGED hist
    /\ last' = Step("clock_tick", "", "ui", "")

\* lines 225-234: _process_results_queue, the 0.1 s poll
process_results_queue ==
    /\ text_area' = text_area \o drain_text(results_queue)
    /\ results_queue' = <<>>
    /\ UNCHANGED <<sr_ok, pyttsx3_ok, is_listening, listen_stop_event, tts_engine,
                   is_speaking, tts_thread, tts_queue, tts_unfinished, tts_stop_event,
                   disabled, status, sched_buttons, asr_pc,
                   tts_pc, tts_text>>
    /\ UNCHANGED hist
    /\ last' = Step("_process_results_queue",
                    IF results_queue = <<>> THEN "empty"
                    ELSE IF Len(results_queue) = 1 THEN "drained_one" ELSE "drained_many",
                    "ui", "")

(* ---------------- _listen_loop (capture thread) ---------------- *)
\* what every step of a capture thread leaves alone
AsrFrame ==
    /\ UNCHANGED <<sr_ok, pyttsx3_ok, tts_engine, is_speaking, tts_thread, tts_queue,
                   tts_unfinished, tts_stop_event, text_area, disabled,
                   tts_pc, tts_text>>
    /\ UNCHANGED <<enqueued, played, stop_mark>>

\* lines 240-241: open the microphone and calibrate; OSError goes to line 256
asr_open(t) ==
    /\ asr_pc[t] = "open"
    /\ \E ok \in BOOLEAN :
         IF ok
         THEN /\ asr_pc' = [asr_pc EXCEPT ![t] = "loop"]
              /\ UNCHANGED <<status>>
              /\ last' = Step("_listen_loop", "opened", "asr", "")
         ELSE /\ asr_pc' = [asr_pc EXCEPT ![t] = "fin_idle"]
              /\ status' = "Microphone error."
              /\ last' = Step("_listen_loop", "open_oserror", "asr", "Microphone Error")
    /\ UNCHANGED <<is_listening, listen_stop_event, results_queue, sched_buttons,
                   recognized>>
    /\ AsrFrame

\* line 242: the loop head tests listen_stop_event
asr_loop(t) ==
    /\ asr_pc[t] = "loop"
    /\ asr_pc' = [asr_pc EXCEPT ![t] = IF listen_stop_event THEN "fin_idle" ELSE "listen"]
    /\ UNCHANGED <<is_listening, listen_stop_event, results_queue, status,
                   sched_buttons, recognized>>
    /\ AsrFrame
    /\ last' = Step("_listen_loop", IF listen_stop_event THEN "stopped" ELSE "continue",
                    "asr", "")

ListenOutcomes == {"timeout", "text", "unknown", "request_error", "oserror", "error"}

\* lines 245-261: where a round of the loop goes on: WaitTimeoutError, a text,
\* UnknownValueError and RequestError are handled inside the loop, OSError and
\* any other exception leave the `with` block for the handlers of lines 256-261
after_listen_mut(out) ==
    IF out \in {"oserror", "error", "request_error"} THEN "fin_idle" ELSE "loop"
after_listen(out) == IF out \in {"oserror", "error"} THEN "fin_idle" ELSE "loop"

\* lines 243-261: one listen() and recognize_google() round
asr_listen(t) ==
    /\ asr_pc[t] = "listen"
    /\ \E out \in ListenOutcomes :
         /\ CASE out = "timeout" ->
                   /\ UNCHANGED <<results_queue, status, recognized>>
                   /\ asr_pc' = [asr_pc EXCEPT ![t] = after_listen(out)]
                   /\ last' = Step("_listen_loop", out, "asr", "")
              [] out = "text" ->
                   /\ recognized < MaxChunks
                   /\ \E chunk \in Chunks : results_queue' = Append(results_queue, chunk)
                   /\ recognized' = recognized + 1
                   /\ status' = "Recognized."
                   /\ asr_pc' = [asr_pc EXCEPT ![t] = after_listen(out)]
                   /\ last' = Step("_listen_loop", out, "asr", "")
              [] out = "unknown" ->
                   /\ UNCHANGED <<results_queue, recognized>>
                   /\ status' = "Could not understand audio."
                   /\ asr_pc' = [asr_pc EXCEPT ![t] = after_listen(out)]
                   /\ last' = Step("_listen_loop", out, "asr", "")
              [] out = "request_error" ->
                   /\ UNCHANGED <<results_queue, recognized>>
                   /\ status' = "ASR service error"
                   /\ asr_pc' = [asr_pc EXCEPT ![t] = after_listen(out)]
                   /\ last' = Step("_listen_loop", out, "asr", "")
              [] out = "oserror" ->
                   /\ UNCHANGED <<results_queue, recognized>>
                   /\ status' = "Microphone error."
                   /\ asr_pc' = [asr_pc EXCEPT ![t] = after_listen(out)]
                   /\ last' = Step("_listen_loop", out, "asr", "Microphone Error")
              [] out = "error" ->
                   /\ UNCHANGED <<results_queue, recognized>>
                   /\ status' = "Listening error."
                   /\ asr_pc' = [asr_pc EXCEPT ![t] = after_listen(out)]
                   /\ last' = Step("_listen_loop", out, "asr", "Listening Error")
    /\ UNCHANGED <<is_listening, listen_stop_event, sched_buttons>>
    /\ AsrFrame

\* line 263: finally, is_listening = False
asr_fin_idle(t) ==
    /\ asr_pc[t] = "fin_idle"
    /\ is_listening' = FALSE
    /\ asr_pc' = [asr_pc EXCEPT ![t] = "fin_clear"]
    /\ UNCHANGED <<listen_stop_event, results_queue, status, sched_buttons,
                   recognized>>
    /\ AsrFrame
    /\ last' = Step("_listen_loop", "fin_idle", "asr", "")

\* lines 264-266: finally, clear the event, report "Ready", schedule _update_buttons
asr_fin_clear(t) ==
    /\ asr_pc[t] = "fin_clear"
    /\ listen_stop_event' = FALSE
    /\ status' = "Ready"
    /\ sched_buttons' = TRUE
    /\ asr_pc' = [asr_pc EXCEPT ![t] = "dead"]
    /\ UNCHANGED <<is_listening, results_queue, recognized>>
    /\ AsrFrame
    /\ last' = Step("_listen_loop", "fin_clear", "asr", "")

(* ---------------- _tts_worker (synthesis thread) ---------------- *)
\* what every step of a synthesis thread leaves alone
TtsFrame ==
    /\ UNCHANGED <<sr_ok, pyttsx3_ok, is_listening, listen_stop_event, results_queue,
                   tts_thread, tts_stop_event, text_area, disabled,
                   asr_pc>>
    /\ UNCHANGED <<enqueued, recognized, stop_mark>>

\* line 270: the loop head tests tts_stop_event
tts_loop(t) ==
    /\ tts_pc[t] = "loop"
    /\ tts_pc' = [tts_pc EXCEPT ![t] = IF tts_stop_event THEN "exit" ELSE "get"]
    /\ UNCHANGED <<tts_engine, is_speaking, tts_queue, tts_unfinished, status,
                   sched_buttons, tts_text, played>>
    /\ TtsFrame
    /\ last' = Step("_tts_worker", IF tts_stop_event THEN "stopped" ELSE "continue",
                    "tts", "")

\* line 272: queue.Queue.get() takes the oldest item
queue_pop_mut(q) == [item |-> q[Len(q)], rest |-> SubSeq(q, 1, Len(q) - 1)]
queue_pop(q) == [item |-> Head(q), rest |-> Tail(q)]

\* line 279: `continue` after the Empty handler, back to the loop head
after_empty_mut == "exit"
after_empty == "loop"

\* lines 271-282: tts_queue.get(timeout=0.2), the Empty handler, the blank test
tts_get(t) ==
    /\ tts_pc[t] = "get"
    /\ IF tts_queue # <<>>
       THEN /\ tts_queue' = queue_pop(tts_queue).rest
            /\ IF queue_pop(tts_queue).item.text = <<>>
               THEN /\ tts_pc' = [tts_pc EXCEPT ![t] = "loop"]
                    /\ UNCHANGED tts_text
                    /\ last' = Step("_tts_worker", "blank", "tts", "")
               ELSE /\ tts_pc' = [tts_pc EXCEPT ![t] = "init"]
                    /\ tts_text' = [tts_text EXCEPT ![t] = queue_pop(tts_queue).item]
                    /\ last' = Step("_tts_worker", "dequeued", "tts", "")
            /\ UNCHANGED <<is_speaking, status, sched_buttons>>
       ELSE /\ tts_pc' = [tts_pc EXCEPT ![t] = after_empty]
            /\ is_speaking' = FALSE
            /\ status' = (IF is_speaking THEN "Ready" ELSE status)
            /\ sched_buttons' = (IF is_speaking THEN TRUE ELSE sched_buttons)
            /\ UNCHANGED <<tts_queue, tts_text>>
            /\ last' = Step("_tts_worker", IF is_speaking THEN "drained" ELSE "empty",
                            "tts", "")
    /\ UNCHANGED <<tts_engine, tts_unfinished, played>>
    /\ TtsFrame

\* lines 285-290: lazy pyttsx3.init() when the engine handle is None
tts_init(t) ==
    /\ tts_pc[t] = "init"
    /\ IF tts_engine = None /\ pyttsx3_ok
       THEN \E ok \in BOOLEAN :
              IF ok
              THEN /\ tts_engine' = Engine
                   /\ tts_pc' = [tts_pc EXCEPT ![t] = "check"]
                   /\ UNCHANGED tts_text
                   /\ last' = Step("_tts_worker", "init_ok", "tts", "")
              ELSE /\ UNCHANGED tts_engine
                   /\ tts_pc' = [tts_pc EXCEPT ![t] = "loop"]
                   /\ tts_text' = [tts_text EXCEPT ![t] = NoItem]
                   /\ last' = Step("_tts_worker", "init_failed", "tts", "TTS Error")
       ELSE /\ UNCHANGED <<tts_engine, tts_text>>
            /\ tts_pc' = [tts_pc EXCEPT ![t] = "check"]
            /\ last' = Step("_tts_worker", "engine_present", "tts", "")
    /\ UNCHANGED <<is_speaking, tts_queue, tts_unfinished, status, sched_buttons,
                   played>>
    /\ TtsFrame

\* lines 292-298: skip without an engine, else is_speaking = True, "Speaking..."
tts_speak(t) ==
    /\ tts_pc[t] = "check"
    /\ IF tts_engine = None
       THEN /\ tts_pc' = [tts_pc EXCEPT ![t] = "loop"]
            /\ tts_text' = [tts_text EXCEPT ![t] = NoItem]
            /\ UNCHANGED <<is_speaking, status, sched_buttons>>
            /\ last' = Step("_tts_worker", "no_engine", "tts", "")
       ELSE /\ tts_pc' = [tts_pc EXCEPT ![t] = "say"]
            /\ is_speaking' = TRUE
            /\ status' = "Speaking..."
            /\ sched_buttons' = TRUE
            /\ UNCHANGED tts_text
            /\ last' = Step("_tts_worker", "speaking", "tts", "")
    /\ UNCHANGED <<tts_engine, tts_queue, tts_unfinished, played>>
    /\ TtsFrame

\* lines 299-301: self.tts_engine.say(text) and the entry into runAndWait();
\* with the handle None the attribute access raises and lines 302-308 run
tts_say(t) ==
    /\ tts_pc[t] = "say"
    /\ IF tts_engine = None
       THEN /\ tts_pc' = [tts_pc EXCEPT ![t] = "loop"]
            /\ tts_text' = [tts_text EXCEPT ![t] = NoItem]
            /\ status' = "TTS error."
            /\ tts_unfinished' = tts_unfinished - 1
            /\ UNCHANGED played
            /\ last' = Step("_tts_worker", "say_failed", "tts", "TTS Error")
       ELSE /\ tts_pc' = [tts_pc EXCEPT ![t] = "play"]
            /\ played' = Append(played, tts_text[t])
            /\ UNCHANGED <<tts_text, status, tts_unfinished>>
            /\ last' = Step("_tts_worker", "say", "tts", "")
    /\ UNCHANGED <<tts_engine, is_speaking, tts_queue, sched_buttons>>
    /\ TtsFrame

\* lines 301-308: the blocking runAndWait() returns or raises; task_done()
tts_play_return(t) ==
    /\ tts_pc[t] = "play"
    /\ \E ok \in BOOLEAN :
         IF ok
         THEN /\ UNCHANGED <<tts_engine, status>>
              /\ last' = Step("_tts_worker", "played", "tts", "")
         ELSE /\ tts_engine' = None
              /\ status' = "TTS error."
              /\ last' = Step("_tts_worker", "play_failed", "tts", "TTS Error")
    /\ tts_unfinished' = tts_unfinished - 1
    /\ tts_pc' = [tts_pc EXCEPT ![t] = "loop"]
    /\ tts_text' = [tts_text EXCEPT ![t] = NoItem]
    /\ UNCHANGED <<is_speaking, tts_queue, sched_buttons, played>>
    /\ TtsFrame

\* lines 310-313: after the loop
tts_exit(t) ==
    /\ tts_pc[t] = "exit"
    /\ is_speaking' = FALSE
    /\ status' = "Ready"
    /\ sched_buttons' = TRUE
    /\ tts_pc' = [tts_pc EXCEPT ![t] = "dead"]
    /\ UNCHANGED <<tts_engine, tts_queue, tts_unfinished, tts_text, played>>
    /\ TtsFrame
    /\ last' = Step("_tts_worker", "exit", "tts", "")

(* ---------------- the program ---------------- *)
Next ==
    \/ on_record
    \/ on_stop_button
    \/ on_speak
    \/ on_new
    \/ type_text
    \/ clock_tick
    \/ process_results_queue
    \/ \E t \in AsrIds : asr_open(t)
    \/ \E t \in AsrIds : asr_loop(t)
    \/ \E t \in AsrIds : asr_listen(t)
    \/ \E t \in AsrIds : asr_fin_idle(t)
    \/ \E t \in AsrIds : asr_fin_clear(t)
    \/ \E t \in TtsIds : tts_loop(t)
    \/ \E t \in TtsIds : tts_get(t)
    \/ \E t \in TtsIds : tts_init(t)
    \/ \E t \in TtsIds : tts_speak(t)
    \/ \E t \in TtsIds : tts_say(t)
    \/ \E t \in TtsIds : tts_play_return(t)
    \/ \E t \in TtsIds : tts_exit(t)

Spec == Init /\ [][Next]_vars

TypeOK ==
    /\ is_listening \in BOOLEAN /\ is_speaking \in BOOLEAN
    /\ tts_engine \in {None, Engine}
    /\ tts_thread \in 0..MaxTts
    /\ tts_unfinished \in 0..MaxUtter
    /\ Len(tts_queue) <= MaxUtter

\* The capture side and the synthesis side share no field: they meet only in
\* on_stop_button, in the status text and in the button flags. Each side is
\* explored with the UI handlers and its own threads.
\* the synthesis side alone: the UI and the _tts_worker threads
NextTts ==
    \/ on_stop_button
    \/ on_speak
    \/ on_new
    \/ type_text
    \/ clock_tick
    \/ \E t \in TtsIds : tts_loop(t)
    \/ \E t \in TtsIds : tts_get(t)
    \/ \E t \in TtsIds : tts_init(t)
    \/ \E t \in TtsIds : tts_speak(t)
    \/ \E t \in TtsIds : tts_say(t)
    \/ \E t \in TtsIds : tts_play_return(t)
    \/ \E t \in TtsIds : tts_exit(t)

SpecTts == Init /\ [][NextTts]_vars

\* the capture side alone: the UI and the _listen_loop threads
NextAsr ==
    \/ on_record
    \/ on_stop_button
    \/ on_new
    \/ clock_tick
    \/ process_results_queue
    \/ \E t \in AsrIds : asr_open(t)
    \/ \E t \in AsrIds : asr_loop(t)
    \/ \E t \in AsrIds : asr_listen(t)
    \/ \E t \in AsrIds : asr_fin_idle(t)
    \/ \E t \in AsrIds : asr_fin_clear(t)

SpecAsr == Init /\ [][NextAsr]_vars

\* the operating system keeps scheduling every capture thread, and every
\* listen() and recognize_google() call returns
FairAsr ==
    \A t \in AsrIds :
        /\ WF_vars(asr_open(t))
        /\ WF_vars(asr_loop(t))
        /\ WF_vars(asr_listen(t))
        /\ WF_vars(asr_fin_idle(t))
        /\ WF_vars(asr_fin_clear(t))

SpecAsrFair == Init /\ [][NextAsr]_vars /\ FairAsr

(* ---------------- the Hello, World run ---------------- *)
\* The user types Hello and presses Speak, then types World and presses Speak;
\* nobody presses Stop, every playback call returns without an error.
InitHW == Init /\ sr_ok /\ pyttsx3_ok

HwType ==
    \/ enqueued = 0 /\ text_area # Hello /\ type_doc(Hello)
    \/ enqueued = 1 /\ text_area # World /\ type_doc(World)

HwSpeak ==
    /\ \/ enqueued = 0 /\ text_area = Hello
       \/ enqueued = 1 /\ text_area = World
    /\ on_speak

\* runAndWait() returns without raising
tts_play_ok(t) == tts_play_return(t) /\ last'.br = "played"

NextHW ==
    \/ HwType
    \/ HwSpeak
    \/ clock_tick
    \/ \E t \in TtsIds : tts_loop(t)
    \/ \E t \in TtsIds : tts_get(t)
    \/ \E t \in TtsIds : tts_init(t)
    \/ \E t \in TtsIds : tts_speak(t)
    \/ \E t \in TtsIds : tts_say(t)
    \/ \E t \in TtsIds : tts_play_ok(t)

\* the user carries the script out, the operating system keeps scheduling every
\* worker thread, and a blocking playback call returns
FairHW ==
    /\ WF_vars(HwType)
    /\ WF_vars(HwSpeak)
    /\ \A t \in TtsIds :
         /\ WF_vars(tts_loop(t))
         /\ WF_vars(tts_get(t))
         /\ WF_vars(tts_init(t))
         /\ WF_vars(tts_speak(t))
         /\ WF_vars(tts_say(t))
         /\ WF_vars(tts_play_ok(t))

SpecHW == InitHW /\ [][NextHW]_vars /\ FairHW

(* ---------------- properties ---------------- *)
TtsAlive == { t \in TtsIds : tts_alive(t) }
AsrAlive == { t \in AsrIds : asr_alive(t) }
\* the threads inside the blocking runAndWait()
TtsPlaying == { t \in TtsIds : tts_pc[t] = "play" }

\* C1: playback calls are made in the order their utterances were enqueued,
\* and no two playback calls are in progress at once.
C1_PlaybackInOrderNoOverlap ==
    /\ \A i, j \in 1..Len(played) : i < j => played[i].n < played[j].n
    /\ Cardinality(TtsPlaying) <= 1

\* C2: at most one synthesis worker thread is alive.
C2_AtMostOneTtsWorker == Cardinality(TtsAlive) <= 1

\* C3: when global Stop was invoked with SynthesisState Speaking or a non-empty
\* UtteranceQueue, the queue is empty and SynthesisState is Idle on return,
\* whether or not the engine handle was present.
C3_StopEmptiesAndIdles ==
    (last.op = "on_stop_button"
        /\ last.br \in {"tts", "noengine", "listening+tts", "listening+noengine"})
    => (tts_queue = <<>> /\ ~is_speaking)

\* C4: global Stop invoked with CaptureState Idle, SynthesisState Idle and an empty
\* UtteranceQueue reports "Nothing to stop." and leaves the capture state, the
\* synthesis state, both queues, both events, the engine handle and the worker
\* reference unchanged.
C4_StopIdleChangesNothing ==
    [][ (last'.op = "on_stop_button" /\ ~is_listening /\ ~is_speaking /\ tts_queue = <<>>)
        => (/\ status' = "Nothing to stop."
            /\ UNCHANGED <<is_listening, is_speaking, results_queue, tts_queue,
                           listen_stop_event, tts_stop_event, tts_engine, tts_thread>>)
      ]_vars

\* C4 happens: Stop ran in an all-idle state while a synthesis worker was alive
\* and the engine handle present
C4_Witness ==
    /\ last.op = "on_stop_button" /\ last.br = "nothing"
    /\ status = "Nothing to stop."
    /\ tts_thread # 0 /\ tts_engine = Engine /\ TtsAlive # {}

\* C5: Record invoked while Listening changes nothing: no capture thread is
\* spawned, listen_stop_event keeps its value, status and buttons are unchanged.
C5_RecordWhileListeningNoOp ==
    [][ (last'.op = "on_record" /\ is_listening) => UNCHANGED state ]_vars

\* C5 happens: Record ran while Listening with a stop request pending
C5_Witness ==
    /\ last.op = "on_record" /\ last.br = "already_listening"
    /\ is_listening /\ listen_stop_event

\* C6: at most one capture worker thread is alive.
C6_AtMostOneAsrWorker == Cardinality(AsrAlive) <= 1

\* a chunk cut back to its last non-space character, then one space
RECURSIVE OneTrailingSpace(_)
OneTrailingSpace(chunk) ==
    IF chunk # <<>> /\ chunk[Len(chunk)] = " "
    THEN OneTrailingSpace(SubSeq(chunk, 1, Len(chunk) - 1))
    ELSE Append(chunk, " ")

RECURSIVE ConcatOneTrailingSpace(_)
ConcatOneTrailingSpace(q) ==
    IF q = <<>> THEN <<>>
    ELSE OneTrailingSpace(Head(q)) \o ConcatOneTrailingSpace(Tail(q))

\* a chunk as the poll appends it: nothing for an empty chunk, the chunk itself
\* when its last character is a space, else the chunk and one space
SpaceTerminated(chunk) ==
    IF chunk = <<>> THEN <<>>
    ELSE IF chunk[Len(chunk)] = " " THEN chunk
    ELSE Append(chunk, " ")

RECURSIVE ConcatSpaceTerminated(_)
ConcatSpaceTerminated(q) ==
    IF q = <<>> THEN <<>>
    ELSE SpaceTerminated(Head(q)) \o ConcatSpaceTerminated(Tail(q))

\* C7 as stated, for queues of non-empty chunks: one poll tick empties the
\* TranscriptQueue and appends every chunk, in arrival order, normalized to end
\* with exactly one trailing space, also a chunk that already ends with one or
\* several spaces.
C7_PollNormalizesEveryChunk ==
    [][ (last'.op = "_process_results_queue"
            /\ \A i \in 1..Len(results_queue) : results_queue[i] # <<>>)
        => (/\ results_queue' = <<>>
            /\ text_area' = text_area \o ConcatOneTrailingSpace(results_queue))
      ]_vars

\* C7 amended: one poll tick empties the TranscriptQueue and appends the chunks in
\* arrival order; an empty chunk adds nothing, a chunk that ends with a space is
\* appended as it is (all its trailing spaces kept), any other chunk is appended
\* followed by one space; a tick on an empty queue leaves the buffer unchanged.
C7_PollAppendsSpaceTerminated ==
    [][ last'.op = "_process_results_queue"
        => (/\ results_queue' = <<>>
            /\ text_area' = text_area \o ConcatSpaceTerminated(results_queue)
            /\ (results_queue = <<>> => text_area' = text_area))
      ]_vars

\* C7 happens: one tick drained two chunks, "h" and then "w" with two trailing
\* spaces, into an empty buffer
C7_Witness ==
    /\ last.op = "_process_results_queue" /\ last.br = "drained_many"
    /\ text_area = <<"h", " ", "w", " ", " ">>
    /\ results_queue = <<>>

\* C8: Speak with an empty or whitespace-only buffer (pyttsx3 installed) enqueues
\* nothing, spawns no worker, leaves the engine handle and tts_stop_event
\* unchanged and reports "Nothing to speak.", also when the engine handle is None.
C8_BlankSpeakNoOp ==
    [][ (last'.op = "on_speak" /\ pyttsx3_ok /\ strip(text_area) = <<>>)
        => (/\ status' = "Nothing to speak."
            /\ UNCHANGED <<tts_queue, tts_unfinished, tts_pc, tts_thread, tts_engine,
                           tts_stop_event>>)
      ]_vars

\* the button function of C10 in every state with no _update_buttons call left
\* on the Clock (it fails as soon as a worker has dequeued the only item)
ButtonsFollowState ==
    ~sched_buttons =>
        /\ disabled.btn_record = is_listening
        /\ disabled.btn_speak = is_listening
        /\ disabled.btn_stop = ~(is_listening \/ is_speaking \/ tts_queue # <<>>)

\* C10: once every scheduled _update_buttons call has run, Record and Speak are
\* disabled exactly when Listening and Stop exactly when not (Listening or
\* Speaking or UtteranceQueue non-empty), in particular after a worker has
\* dequeued the last item and skipped it: stated for the states in which no
\* worker is between a dequeue and its return to the loop head.
C10_ButtonsFollowStateAtRest ==
    (~sched_buttons /\ \A t \in TtsIds : tts_pc[t] \in {"none", "dead", "loop", "get"})
    => /\ disabled.btn_record = is_listening
       /\ disabled.btn_speak = is_listening
       /\ disabled.btn_stop = ~(is_listening \/ is_speaking \/ tts_queue # <<>>)

\* the texts say() was called with
PlayedTexts == [i \in 1..Len(played) |-> played[i].text]

\* C9: in the Hello, World run the worker makes exactly two playback calls, Hello
\* then World, and the system ends, for good, Idle with an empty UtteranceQueue.
C9_HelloThenWorld ==
    <>[](PlayedTexts = <<Hello, World>> /\ ~is_speaking /\ tts_queue = <<>>)

\* C9 happens: both utterances were played and the one worker is polling again
C9_Witness ==
    /\ PlayedTexts = <<Hello, World>>
    /\ ~is_speaking /\ tts_queue = <<>>
    /\ enqueued = 2
    /\ TtsAlive = {1} /\ tts_pc[1] \in {"loop", "get"}

\* C11: every call of global Stop reports the status its state asks for:
\* "Stopped.", with the synthesis stopped, when Speaking or the UtteranceQueue
\* was non-empty; else "Stopping listening..." when Listening; "Nothing to
\* stop." when neither held; a call made while Listening sets the capture
\* event whatever the synthesis side does.
C11_StopReportsStatus ==
    last.op = "on_stop_button" =>
        /\ last.br \in {"tts", "noengine", "listening+tts", "listening+noengine"}
             => (status = "Stopped." /\ tts_stop_event /\ tts_queue = <<>> /\ ~is_speaking)
        /\ last.br = "listening" => status = "Stopping listening..."
        /\ last.br \in {"listening", "listening+tts", "listening+noengine"}
             => listen_stop_event
        /\ last.br = "nothing" <=> status = "Nothing to stop."

\* The workers global Stop has signalled. on_speak stores every thread it
\* starts in tts_thread and starts none while that thread is alive, and only
\* the synthesis stop of on_stop_button (lines 134-142) resets tts_thread: an
\* alive worker tts_thread does not name was alive when a Stop set the event.
TtsSignalled == { t \in TtsIds : tts_alive(t) /\ tts_thread # t }

\* C12: a worker Stop has signalled terminates at its next test of the loop
\* head, whatever Speak actions happened in between: the loop head never sends
\* a signalled worker back to the queue.
C12_SignalledWorkerExits ==
    [][ \A t \in TtsIds :
          (t \in TtsSignalled /\ tts_pc[t] = "loop" /\ tts_pc'[t] # "loop")
          => tts_pc'[t] = "exit" ]_vars

\* C13: when global Stop is invoked while Listening, and the capture threads
\* keep running and their blocking calls return, the listening worker leaves
\* its loop and CaptureState eventually becomes Idle.
C13_StopEndsListening ==
    (last.op = "on_stop_button"
        /\ last.br \in {"listening", "listening+tts", "listening+noengine"})
    ~> ~is_listening

\* C14: after a global Stop that stopped the synthesis, no playback call is
\* started for an utterance enqueued before that Stop, also not for an item a
\* worker had dequeued but not begun to play: every say() is for an item
\* enqueued after the last such Stop.
C14_NoPlaybackOfStoppedItems ==
    [][ played' # played => played'[Len(played')].n > stop_mark ]_vars

\* C15: a synthesis worker leaves its loop only when it finds tts_stop_event
\* set and terminates only after leaving the loop; on an empty UtteranceQueue it
\* sets SynthesisState Idle (reporting "Ready" if it was Speaking) and returns
\* to the loop head; a Speak made while the worker tts_thread names is alive
\* starts no thread and leaves the item to that worker.
C15_WorkerOutlivesEmptyQueue ==
    [][ /\ \A t \in TtsIds :
             /\ (tts_pc[t] # "exit" /\ tts_pc'[t] = "exit")
                  => (tts_stop_event /\ tts_pc[t] = "loop")
             /\ (tts_pc[t] # "dead" /\ tts_pc'[t] = "dead") => tts_pc[t] = "exit"
             /\ (tts_pc[t] = "get" /\ tts_pc'[t] # "get" /\ tts_queue = <<>>)
                  => /\ tts_pc'[t] = "loop"
                     /\ ~is_speaking'
                     /\ is_speaking => (status' = "Ready" /\ sched_buttons')
        /\ (last'.op = "on_speak" /\ tts_thread # 0 /\ tts_alive(tts_thread)
              /\ tts_queue' # tts_queue)
             => (tts_thread' = tts_thread /\ tts_pc' = tts_pc)
      ]_vars

\* C15 happens: the worker played an item, found the queue empty and went Idle,
\* and a later Speak queued an item without starting a thread
C15_Witness ==
    /\ last.op = "on_speak" /\ last.br = "queued"
    /\ Len(played) = 1 /\ ~is_speaking /\ status = "Queued for speaking..."
    /\ Len(tts_queue) = 1
    /\ TtsAlive = {tts_thread} /\ tts_pc[tts_thread] \in {"loop", "get"}
    /\ ~tts_stop_event

\* the characters of a text other than spaces, in order
Letters(s) == SelectSeq(s, LAMBDA c : c # " ")

\* the chunks of a queue joined in queue order
RECURSIVE Flatten(_)
Flatten(q) == IF q = <<>> THEN <<>> ELSE Head(q) \o Flatten(Tail(q))

\* C16: a capture worker's step leaves the document alone and changes the
\* TranscriptQueue only by pushing one chunk at its end; a poll tick empties the
\* queue and extends the document, keeping what it held, by the characters of
\* every queued chunk once each in queue order; no other step touches the queue.
C16_ChunksReachDocumentOnce ==
    [][ /\ last'.th = "asr"
             => /\ text_area' = text_area
                /\ \/ results_queue' = results_queue /\ recognized' = recognized
                   \/ /\ \E chunk \in Chunks :
                             results_queue' = Append(results_queue, chunk)
                      /\ recognized' = recognized + 1
        /\ last'.op = "_process_results_queue"
             => /\ results_queue' = <<>>
                /\ Len(text_area') >= Len(text_area)
                /\ SubSeq(text_area', 1, Len(text_area)) = text_area
                /\ Letters(text_area') = Letters(text_area) \o Letters(Flatten(results_queue))
        /\ (last'.th = "ui" /\ last'.op # "_process_results_queue")
             => results_queue' = results_queue
      ]_vars

\* C16 happens: two chunks were pushed and one poll tick moved both into an
\* empty document, in push order
C16_Witness ==
    /\ last.op = "_process_results_queue" /\ last.br = "drained_many"
    /\ recognized = 2 /\ results_queue = <<>>
    /\ text_area = <<"h", " ", "w", " ">>

\* the program points at which a synthesis worker holds a dequeued item
TtsHolding == {"init", "check", "say", "play"}

\* C17: a worker that gives up the item it dequeued, whether it was played, its
\* playback failed or the engine could not be initialized, marks it consumed
\* (task_done) in that step and never goes back to it; a playback failure sets
\* the engine handle to None; the consumed marks never exceed the items enqueued.
C17_EveryItemMarkedConsumed ==
    [][ /\ \A t \in TtsIds :
             (tts_pc[t] \in TtsHolding /\ tts_pc'[t] = "loop")
                => (tts_unfinished' = tts_unfinished - 1 /\ tts_text'[t] = NoItem)
        /\ last'.br \in {"play_failed", "say_failed"} => tts_engine' = None
        /\ tts_unfinished' >= 0
      ]_vars

\* C18: in the capture loop a no-match and a recognition-service failure leave
\* is_listening as it is and the worker at its loop head, a microphone failure
\* or any other exception ends the loop; a worker ends only through the finally
\* block, which sets is_listening False, clears listen_stop_event and reports
\* "Ready"; with no capture worker left the state is Idle, so Record starts one.
C18_CaptureLoopErrorsAndExit ==
    [][ /\ \A t \in AsrIds :
             /\ (asr_pc[t] = "listen" /\ last'.br \in {"unknown", "request_error"}
                   /\ asr_pc'[t] # asr_pc[t])
                  => (asr_pc'[t] = "loop" /\ is_listening' = is_listening
                        /\ last'.popup = "")
             /\ (asr_pc[t] \in {"open", "listen"}
                   /\ last'.br \in {"open_oserror", "oserror", "error"}
                   /\ asr_pc'[t] # asr_pc[t])
                  => asr_pc'[t] = "fin_idle"
             /\ (asr_pc[t] = "fin_idle" /\ asr_pc'[t] # "fin_idle")
                  => (asr_pc'[t] = "fin_clear" /\ ~is_listening')
             /\ (asr_pc[t] = "fin_clear" /\ asr_pc'[t] # "fin_clear")
                  => /\ asr_pc'[t] = "dead"
                     /\ ~listen_stop_event' /\ status' = "Ready" /\ sched_buttons'
             /\ (asr_pc[t] # "dead" /\ asr_pc'[t] = "dead") => asr_pc[t] = "fin_clear"
        /\ AsrAlive' = {} => (~is_listening' /\ ~listen_stop_event')
      ]_vars

\* C18 happens: a capture worker met a microphone failure in the loop and its
\* finally block has set is_listening False
C18_Witness ==
    /\ last.op = "_listen_loop" /\ last.br = "fin_idle"
    /\ status = "Microphone error."
    /\ ~is_listening
    /\ \E t \in AsrIds : asr_pc[t] = "fin_clear" /\ AsrAlive = {t}
    /\ recognized = 1

\* C19: a step of a capture or synthesis thread leaves the document and the
\* button flags alone and creates no UI object: it opens no popup itself; what
\* it reports reaches the UI only through the scheduled status and button update.
C19_WorkersLeaveUiAlone ==
    [][ last'.th # "ui"
          => /\ text_area' = text_area
             /\ disabled' = disabled
             /\ last'.popup = ""
      ]_vars


\* C20: Record pressed without speech recognition opens the popup "Missing
\* Dependency" and changes nothing: is_listening stays False, listen_stop_event,
\* the threads, the button flags, the status and everything else are as before.
C20_RecordWithoutRecognizerNoOp ==
    [][ (last'.op = "on_record" /\ ~sr_ok)
          => /\ ~is_listening /\ ~is_listening'
             /\ listen_stop_event' = listen_stop_event
             /\ asr_pc' = asr_pc
             /\ disabled' = disabled
             /\ UNCHANGED <<state, hist>>
             /\ last'.popup = "Missing Dependency"
      ]_vars

\* C20 happens: Record was pressed without speech recognition after a Stop
\* that found nothing to stop; the status is still that Stop's, no thread exists
C20_Witness ==
    /\ last.op = "on_record" /\ last.br = "no_recognizer"
    /\ last.popup = "Missing Dependency"
    /\ ~sr_ok /\ ~is_listening /\ ~listen_stop_event /\ AsrAlive = {}
    /\ status = "Nothing to stop."


====
